---- MODULE Spec2Model ----
(***************************************************************************)
(* Model of ec2.py: the instance catalogue (get_instances), the            *)
(* on-demand/reserved price merge (add_pricing), the spot price merge      *)
(* (add_spot_pricing) and the price helpers they call.                     *)
(*                                                                         *)
(* Python values are modelled as follows.                                  *)
(*   str    a sequence of pieces, each piece a run of characters; the      *)
(*          strings a function inspects character by character (prices,   *)
(*          zone names) are sequences of single characters                 *)
(*   float  a fixed-point number of millionths (the precision "%f" keeps)  *)
(*   None   the value None                                                 *)
(*   dict   a function; a dict whose iteration order matters is a sequence *)
(*   raise  the value Raised("<exception>") returned in place of a result  *)
(***************************************************************************)
EXTENDS Integers, Sequences, FiniteSets, Bags, TLC

VARIABLES
  \* get_instances
  gi_pc,           \* "list", "products", "returned" or "raised"
  instance_types,  \* the dict of DescribeInstanceTypes results
  instances,       \* the dict of entities built so far
  catalog,         \* history: the offers the product loop has taken
  \* add_pricing and add_spot_pricing
  pc,              \* "pricing", "spot", "returned" or "raised"
  imap,            \* instance type -> its entity's pricing dict
  key_order,       \* instance type -> the keys of that dict, oldest first
  printed,         \* what the last step printed: "", "WARNING" or "ERROR"
  ninputs,         \* the records and spot prices taken from upstream
  last,            \* history: the input of the last step
  observed,        \* history: <<instance, region, platform>> of merged inputs
  reserved_seen,   \* history: the same, of records carrying reserved terms
  regions,         \* the region list of add_spot_pricing
  ri,              \* the index in regions of the region being queried
  spot_seen,       \* history: the spot prices merged, per bundle
  \* get_ondemand_pricing / get_reserved_pricing called on their own
  fn_pc,           \* "call" or "returned"
  fn_terms,        \* the argument
  fn_result        \* the value returned, or the raise

gi_vars == <<gi_pc, instance_types, instances, catalog>>
ap_vars == <<pc, imap, key_order, printed, ninputs, last, observed,
             reserved_seen, regions, ri, spot_seen>>
fn_vars == <<fn_pc, fn_terms, fn_result>>
vars == <<gi_vars, ap_vars, fn_vars>>

\* sequences over S of at most n elements
SeqsUpTo(S, n) == UNION {[1..k -> S] : k \in 0..n}

None == [t |-> "None"]
PyStr(s) == [t |-> "str", s |-> s]
PyFloat(m) == [t |-> "float", micro |-> m]
Raised(e) == [t |-> "raise", exc |-> e]
IsRaised(v) == v.t = "raise"

Last(s) == s[Len(s)]
Front(s) == SubSeq(s, 1, Len(s) - 1)

-----------------------------------------------------------------------------
(* float(<str>) and "%f" / str(<float>), in millionths *)

Digits == {"0", "1", "2", "3", "4", "5", "6", "7", "8", "9"}

DigitVal(c) ==
  CASE c = "0" -> 0 [] c = "1" -> 1 [] c = "2" -> 2 [] c = "3" -> 3
    [] c = "4" -> 4 [] c = "5" -> 5 [] c = "6" -> 6 [] c = "7" -> 7
    [] c = "8" -> 8 [] c = "9" -> 9

DigitChar(d) ==
  CASE d = 0 -> "0" [] d = 1 -> "1" [] d = 2 -> "2" [] d = 3 -> "3"
    [] d = 4 -> "4" [] d = 5 -> "5" [] d = 6 -> "6" [] d = 7 -> "7"
    [] d = 8 -> "8" [] d = 9 -> "9"

RECURSIVE DigitsToNat(_)
DigitsToNat(ds) ==
  IF ds = <<>> THEN 0 ELSE 10 * DigitsToNat(Front(ds)) + DigitVal(Last(ds))

RECURSIVE NatToDigits(_)
NatToDigits(n) ==
  IF n < 10 THEN <<DigitChar(n)>>
  ELSE Append(NatToDigits(n \div 10), DigitChar(n % 10))

RECURSIVE RStrip(_, _)
RStrip(s, c) ==
  IF s # <<>> /\ Last(s) = c THEN RStrip(Front(s), c) ELSE s

PadRight(ds, n) == [i \in 1..n |-> IF i <= Len(ds) THEN ds[i] ELSE "0"]
PadLeft(ds, n) ==
  [i \in 1..n |-> IF i <= n - Len(ds) THEN "0" ELSE ds[i - (n - Len(ds))]]

DotAt(s) ==
  IF \E i \in 1..Len(s) : s[i] = "."
  THEN CHOOSE i \in 1..Len(s) : s[i] = "." /\ \A j \in 1..(i - 1) : s[j] # "."
  ELSE Len(s) + 1

\* the strings float() accepts, among the ones modelled: digits with at most
\* one decimal point and at least one digit
IsDecimal(s) ==
  /\ \A i \in 1..Len(s) : s[i] \in Digits \/ (s[i] = "." /\ i = DotAt(s))
  /\ \E i \in 1..Len(s) : s[i] \in Digits

\* float(s), rounded to the millionth as "%f" rounds it
ParseMicro(s) ==
  LET d == DotAt(s)
      ip == SubSeq(s, 1, d - 1)
      fp == SubSeq(s, d + 1, Len(s))
      six == PadRight(SubSeq(fp, 1, IF Len(fp) < 6 THEN Len(fp) ELSE 6), 6)
      up == IF Len(fp) >= 7 /\ DigitVal(fp[7]) >= 5 THEN 1 ELSE 0
  IN DigitsToNat(ip) * 1000000 + DigitsToNat(six) + up

\* str(float("%f" % x)) for x of m millionths: repr switches to exponent
\* notation below 1e-4
FloatRepr(m) ==
  IF 0 < m /\ m < 100
  THEN LET e == IF m < 10 THEN "6" ELSE "5"
           a == IF m < 10 THEN m ELSE m \div 10
           b == IF m < 10 THEN 0 ELSE m % 10
       IN (IF b = 0 THEN <<DigitChar(a)>> ELSE <<DigitChar(a), ".", DigitChar(b)>>)
            \o <<"e", "-", "0", e>>
  ELSE LET fr == RStrip(PadLeft(NatToDigits(m % 1000000), 6), "0")
       IN NatToDigits(m \div 1000000) \o <<".">> \o (IF fr = <<>> THEN <<"0">> ELSE fr)

FormatMicro(m) == RStrip(RStrip(FloatRepr(m), "0"), ".")

\* format_price(price): price is a str or a float
format_price(price) ==
  IF price.t = "float" THEN PyStr(FormatMicro(price.micro))
  ELSE IF price.t = "str"
       THEN IF IsDecimal(price.s) THEN PyStr(FormatMicro(ParseMicro(price.s)))
            ELSE Raised("ValueError")
       ELSE Raised("TypeError")

\* Python truthiness of the values a price can take
Truthy(v) ==
  CASE v.t = "None" -> FALSE
    [] v.t = "str" -> v.s # <<>>
    [] v.t = "float" -> v.micro # 0

-----------------------------------------------------------------------------
(* dicts *)

EmptyDict == [k \in {} |-> None]
DictSet(d, k, v) == [x \in DOMAIN d \cup {k} |-> IF x = k THEN v ELSE d[x]]
SetDefault(d, k, v) == IF k \in DOMAIN d THEN d ELSE DictSet(d, k, v)

\* table[v] for a table keyed by one-piece strings; KeyError otherwise
Lookup(table, v) ==
  IF v.t = "str" /\ Len(v.s) = 1 /\ v.s[1] \in DOMAIN table
  THEN PyStr(table[v.s[1]])
  ELSE Raised("KeyError")

-----------------------------------------------------------------------------
(* the translators *)

Europe == <<"Europe">>

\* re.sub("^EU", "Europe", location): a location is a sequence of pieces and
\* a leading "EU" is a piece of its own
canonicalize_location(location) ==
  IF location # <<>> /\ location[1] = "EU"
  THEN Europe \o SubSeq(location, 2, Len(location))
  ELSE location

OsTable ==
  ("Linux" :> <<"linux">>) @@ ("RHEL" :> <<"rhel">>)
    @@ ("Red Hat Enterprise Linux with HA" :> <<"rhel">>)
    @@ ("SUSE" :> <<"sles">>) @@ ("Windows" :> <<"mswin">>)
    @@ ("Linux/UNIX" :> <<"linux">>)
    @@ ("Red Hat Enterprise Linux" :> <<"rhel">>)
    @@ ("SUSE Linux" :> <<"sles">>)

SoftwareTable ==
  ("NA" :> <<>>) @@ ("SQL Std" :> <<"SQL">>) @@ ("SQL Web" :> <<"SQLWeb">>)
    @@ ("SQL Ent" :> <<"SQLEnterprise">>)

translate_platform_name(operating_system, preinstalled_software) ==
  LET o == Lookup(OsTable, operating_system)
      w == Lookup(SoftwareTable, preinstalled_software)
  IN IF IsRaised(o) THEN o ELSE IF IsRaised(w) THEN w ELSE PyStr(o.s \o w.s)

Lease1 == <<"1", "y", "r">>
Lease3 == <<"3", "y", "r">>

LeaseTable(v) ==
  IF v.t = "str" /\ v.s = Lease1 THEN PyStr(<<"yrTerm1">>)
  ELSE IF v.t = "str" /\ v.s = Lease3 THEN PyStr(<<"yrTerm3">>)
  ELSE Raised("KeyError")

OptionTable ==
  ("All Upfront" :> <<"allUpfront">>) @@ ("Partial Upfront" :> <<"partialUpfront">>)
    @@ ("No Upfront" :> <<"noUpfront">>)

\* str(offering_class).capitalize(), on the offering classes modelled
StrCapitalize(v) ==
  IF v.t = "None" THEN <<"None">>
  ELSE IF v.s = <<"standard">> THEN <<"Standard">>
  ELSE IF v.s = <<"convertible">> THEN <<"Convertible">>
  ELSE v.s

translate_reserved_terms(term_attributes) ==
  LET l == LeaseTable(term_attributes.LeaseContractLength)
      o == Lookup(OptionTable, term_attributes.PurchaseOption)
  IN IF IsRaised(l) THEN l
     ELSE IF IsRaised(o) THEN o
     ELSE PyStr(l.s \o StrCapitalize(term_attributes.OfferingClass) \o <<".">> \o o.s)

-----------------------------------------------------------------------------
(* get_ondemand_pricing and get_reserved_pricing *)

\* the inner loop of get_ondemand_pricing over one term's price dimensions
RECURSIVE OndemandDims(_, _)
OndemandDims(dims, price) ==
  IF dims = <<>> THEN price ELSE OndemandDims(Tail(dims), Head(dims).USD)

\* the outer loop: the price left in `price` after all terms, or the raise
RECURSIVE OndemandTerms(_, _)
OndemandTerms(ts, price) ==
  IF ts = <<>> THEN price
  ELSE IF Head(ts).priceDimensions.t = "None" THEN Raised("AttributeError")
  ELSE OndemandTerms(Tail(ts), OndemandDims(Head(ts).priceDimensions.dims, price))

ZeroReturn == PyFloat(0)

get_ondemand_pricing(terms) ==
  IF terms.t = "None" THEN Raised("AttributeError")
  ELSE LET price == OndemandTerms(terms.OnDemand, PyFloat(0))
       IN IF IsRaised(price) THEN price
          ELSE IF ~Truthy(price) THEN ZeroReturn
          ELSE format_price(price)

\* float(v) in millionths
ToMicro(v) == IF v.t = "float" THEN v.micro ELSE ParseMicro(v.s)
CanFloat(v) == v.t = "float" \/ (v.t = "str" /\ IsDecimal(v.s))

\* the same loop taking a dimension without a USD amount as a zero price
RECURSIVE ReservedDimsZeroOnMissing(_, _, _)
ReservedDimsZeroOnMissing(dims, upfront_price, price_per_hour) ==
  IF dims = <<>> THEN <<upfront_price, price_per_hour>>
  ELSE LET temp_price == IF Truthy(Head(dims).USD) THEN Head(dims).USD ELSE PyFloat(0)
       IN IF Head(dims).unit = "Hrs"
          THEN ReservedDimsZeroOnMissing(Tail(dims), upfront_price, temp_price)
          ELSE ReservedDimsZeroOnMissing(Tail(dims), temp_price, price_per_hour)

\* the loop over one reserved term's price dimensions: <<upfront, per hour>>
RECURSIVE ReservedDims(_, _, _)
ReservedDims(dims, upfront_price, price_per_hour) ==
  IF dims = <<>> THEN <<upfront_price, price_per_hour>>
  ELSE LET temp_price == Head(dims).USD
       IN IF ~Truthy(temp_price)
          THEN ReservedDims(Tail(dims), upfront_price, price_per_hour)
          ELSE IF Head(dims).unit = "Hrs"
          THEN ReservedDims(Tail(dims), upfront_price, temp_price)
          ELSE ReservedDims(Tail(dims), temp_price, price_per_hour)

DaysInYear == 365
HoursInDay == 24

\* int(lease[0]) * 365 * 24
HoursInTerm(lease) == DigitVal(lease[1]) * DaysInYear * HoursInDay

\* float(price_per_hour) + float(upfront_price) / hours_in_term, to the
\* millionth
Amortize(price_per_hour, upfront_price, hours_in_term) ==
  ToMicro(price_per_hour)
    + (ToMicro(upfront_price) + hours_in_term \div 2) \div hours_in_term

PyDict(d) == [t |-> "dict", d |-> d]

\* one iteration of the loop of get_reserved_pricing: the dict after the
\* term, or the raise
ReservedTerm(pricing, term) ==
  IF term.priceDimensions.t = "None" THEN Raised("AttributeError")
  ELSE LET ph == ReservedDims(term.priceDimensions.dims, PyFloat(0), PyFloat(0))
           local_term == translate_reserved_terms(term.termAttributes)
       IN IF IsRaised(local_term) THEN local_term
          ELSE IF ~CanFloat(ph[1]) \/ ~CanFloat(ph[2]) THEN Raised("ValueError")
          ELSE PyDict(DictSet(pricing, local_term.s,
                 format_price(PyFloat(Amortize(ph[2], ph[1],
                   HoursInTerm(term.termAttributes.LeaseContractLength.s))))))

RECURSIVE ReservedTerms(_, _)
ReservedTerms(ts, pricing) ==
  IF ts = <<>> THEN PyDict(pricing)
  ELSE LET nxt == ReservedTerm(pricing, Head(ts))
       IN IF IsRaised(nxt) THEN nxt ELSE ReservedTerms(Tail(ts), nxt.d)

get_reserved_pricing(terms) ==
  IF terms.t = "None" THEN Raised("AttributeError")
  ELSE ReservedTerms(terms.Reserved, EmptyDict)

-----------------------------------------------------------------------------
(* parse_instance *)

\* x in s, for strings as sequences of pieces
Contains(s, x) ==
  \E i \in 1..(Len(s) - Len(x) + 1) : SubSeq(s, i, i + Len(x) - 1) = x

\* s.split(c)[0]
SplitFirst(s, c) ==
  IF \E i \in 1..Len(s) : s[i] = c
  THEN SubSeq(s, 1, (CHOOSE i \in 1..Len(s) : s[i] = c /\ \A j \in 1..(i - 1) : s[j] # c) - 1)
  ELSE s

\* instance_type.split('.'): the number of pieces between the dots
SplitDotCount(instance_type) ==
  1 + Cardinality({i \in 1..Len(instance_type) : instance_type[i] = "."})

RECURSIVE Delocalize(_)
Delocalize(s) ==
  IF s = <<>> THEN <<>>
  ELSE IF Head(s) = "," THEN Delocalize(Tail(s))
  ELSE <<Head(s)>> \o Delocalize(Tail(s))

\* locale.atoi(v) under the en_US locale: an int, or the raise
atoi(v) ==
  IF v.t # "str" THEN Raised("AttributeError")
  ELSE LET d == Delocalize(v.s)
       IN IF d # <<>> /\ \A i \in 1..Len(d) : d[i] \in Digits
          THEN [t |-> "int", n |-> DigitsToNat(d)]
          ELSE Raised("ValueError")

\* locale.atof(v) under the en_US locale: a float, or the raise
atof(v) ==
  IF v.t # "str" THEN Raised("AttributeError")
  ELSE LET d == Delocalize(v.s)
       IN IF IsDecimal(d) THEN PyFloat(ParseMicro(d)) ELSE Raised("ValueError")

\* scrape.Instance(): the entity before parse_instance fills it
NewInstance ==
  [t |-> "Instance", api_description |-> None, instance_type |-> None,
   family |-> None, vCPU |-> 0, memory |-> PyFloat(0), arch |-> <<>>,
   network_performance |-> None, generation |-> None, GPU |-> 0, FPGA |-> 0,
   ebs_as_nvme |-> FALSE, vpc |-> None, ECU |-> PyFloat(0),
   physical_processor |-> None, intel_avx512 |-> FALSE, intel_avx2 |-> FALSE,
   intel_avx |-> FALSE, intel_turbo |-> FALSE, clock_speed_ghz |-> None,
   enhanced_networking |-> FALSE]

RECURSIVE SumCounts(_)
SumCounts(fpgas) == IF fpgas = <<>> THEN 0 ELSE Head(fpgas) + SumCounts(Tail(fpgas))

ParseEcu(ecu, default) ==
  IF ecu.t = "str" /\ ecu.s = <<"Variable">> THEN PyStr(<<"variable">>)
  ELSE IF IsRaised(atof(ecu)) THEN default
  ELSE atof(ecu)

\* parse_instance: the entity, None for a dedicated host, or the raise
parse_instance(instance_type, product_attributes, api_description) ==
  LET a == product_attributes
      d == api_description
      has == d.t # "None"
      vcpu == atoi(a.vcpu)
      mem == IF a.memory.t = "str" THEN atof(PyStr(SplitFirst(a.memory.s, " ")))
             ELSE Raised("AttributeError")
      gpu == IF a.gpu.t = "None" THEN [t |-> "int", n |-> NewInstance.GPU] ELSE atoi(a.gpu)
      pf == a.processorFeatures
  IN IF SplitDotCount(instance_type) = 1 THEN None
     ELSE IF IsRaised(vcpu) THEN vcpu
     ELSE IF IsRaised(mem) THEN mem
     ELSE IF ~has /\ a.processorArchitecture.t # "str" THEN Raised("TypeError")
     ELSE IF IsRaised(gpu) THEN gpu
     ELSE [NewInstance EXCEPT
       !.api_description = d,
       !.instance_type = PyStr(instance_type),
       !.family = a.instanceFamily,
       !.vCPU = vcpu.n,
       !.memory = mem,
       !.arch = IF has THEN d.SupportedArchitectures
                ELSE <<"x86_64">> \o (IF Contains(a.processorArchitecture.s, <<"32-bit">>)
                                      THEN <<"i386">> ELSE <<>>),
       !.network_performance = IF has THEN d.NetworkPerformance ELSE a.networkPerformance,
       !.generation = IF a.currentGeneration.t = "str" /\ a.currentGeneration.s = <<"Yes">>
                      THEN PyStr(<<"current">>) ELSE PyStr(<<"previous">>),
       !.GPU = gpu.n,
       !.FPGA = IF has /\ d.Fpgas.t # "None" THEN @ + SumCounts(d.Fpgas.counts) ELSE @,
       !.ebs_as_nvme = IF has /\ d.EnaSupport = "required" THEN TRUE ELSE @,
       !.vpc = IF has THEN [max_enis |-> d.MaximumNetworkInterfaces,
                            ips_per_eni |-> d.Ipv4AddressesPerInterface] ELSE @,
       !.ECU = ParseEcu(a.ecu, @),
       !.physical_processor = a.physicalProcessor,
       !.intel_avx512 = IF pf.t = "str" /\ Contains(pf.s, <<"Intel AVX", "512">>) THEN TRUE ELSE @,
       !.intel_avx2 = IF pf.t = "str" /\ Contains(pf.s, <<"Intel AVX", "2">>) THEN TRUE ELSE @,
       !.intel_avx = IF pf.t = "str" /\ Contains(pf.s, <<"Intel AVX">>) THEN TRUE ELSE @,
       !.intel_turbo = IF pf.t = "str" /\ Contains(pf.s, <<"Intel Turbo">>) THEN TRUE ELSE @,
       !.clock_speed_ghz = a.clockSpeed,
       !.enhanced_networking =
          IF a.enhancedNetworkingSupported.t = "str"
             /\ a.enhancedNetworkingSupported.s = <<"Yes">> THEN TRUE ELSE @]

-----------------------------------------------------------------------------
(* get_instances *)

MaxCatalog == 2

M5Large == <<"m5", ".", "large">>
T3Micro == <<"t3", ".", "micro">>
U6tb1 == <<"u-6tb1">>
M5Host == <<"m5">>
TypeCodes == {M5Large, T3Micro, U6tb1, M5Host}

BareMetalTypes == {<<"u-6tb1">>, <<"u-9tb1">>, <<"u-12tb1">>}
InstanceFamilies ==
  {"Compute Instance", "Compute Instance (bare metal)", "Dedicated Host"}

AttrsA ==
  [instanceFamily |-> PyStr(<<"General purpose">>), vcpu |-> PyStr(<<"2">>),
   memory |-> PyStr(<<"8", " ", "G", "i", "B">>),
   processorArchitecture |-> PyStr(<<"64-bit">>),
   networkPerformance |-> PyStr(<<"Moderate">>),
   currentGeneration |-> PyStr(<<"Yes">>), gpu |-> None,
   ecu |-> PyStr(<<"Variable">>),
   physicalProcessor |-> PyStr(<<"Intel Xeon Platinum 8175">>),
   processorFeatures |->
     PyStr(<<"Intel AVX", "; ", "Intel AVX", "2", "; ", "Intel Turbo">>),
   clockSpeed |-> PyStr(<<"3.1 GHz">>),
   enhancedNetworkingSupported |-> PyStr(<<"Yes">>)]

AttrsB ==
  [AttrsA EXCEPT
     !.instanceFamily = PyStr(<<"Compute optimized">>),
     !.memory = PyStr(<<"1", ",", "9", "5", "2", " ", "G", "i", "B">>),
     !.processorArchitecture = PyStr(<<"32-bit", " or ", "64-bit">>),
     !.currentGeneration = PyStr(<<"No">>),
     !.gpu = PyStr(<<"1">>),
     !.ecu = None,
     !.processorFeatures = None,
     !.enhancedNetworkingSupported = None]

\* a record without its vcpu attribute
AttrsBad == [AttrsA EXCEPT !.vcpu = None]

\* the offers of the price list: product family, instanceType, attributes
Offers ==
  [productFamily : {"Compute Instance", "Dedicated Host", "Storage"},
   instanceType : TypeCodes,
   attributes : {AttrsA, AttrsB, AttrsBad}]

M5LargeDescription ==
  [t |-> "dict", SupportedArchitectures |-> <<"x86_64">>,
   NetworkPerformance |-> PyStr(<<"Up to 10 Gigabit">>),
   Fpgas |-> [t |-> "list", counts |-> <<1, 1>>], EnaSupport |-> "required",
   MaximumNetworkInterfaces |-> 3, Ipv4AddressesPerInterface |-> 10]

\* what DescribeInstanceTypes may answer
InstanceTypeListings == {EmptyDict, M5Large :> M5LargeDescription}

\* d.get(k)
DictGet(d, k) == IF k \in DOMAIN d THEN d[k] ELSE None

\* the instance type an offer is filed under
OfferType(offer) ==
  IF offer.instanceType \in BareMetalTypes
  THEN offer.instanceType \o <<".", "metal">>
  ELSE offer.instanceType

IsInstanceOffer(offer) == offer.productFamily \in InstanceFamilies

\* the same loop body without the test for a type already present
ProductStepOverwriting(insts, types, offer) ==
  LET instance_type == OfferType(offer)
      new_inst == parse_instance(instance_type, offer.attributes,
                                 DictGet(types, instance_type))
  IN IF ~IsInstanceOffer(offer) THEN PyDict(insts)
     ELSE IF IsRaised(new_inst) THEN new_inst
     ELSE IF new_inst.t = "None" THEN PyDict(insts)
     ELSE PyDict(DictSet(insts, instance_type, new_inst))

\* the body of the product loop of get_instances on one offer: the
\* instances dict after it, or the raise
ProductStep(insts, types, offer) ==
  LET instance_type == OfferType(offer)
      new_inst == parse_instance(instance_type, offer.attributes,
                                 DictGet(types, instance_type))
  IN IF ~IsInstanceOffer(offer) THEN PyDict(insts)
     ELSE IF instance_type \in DOMAIN insts THEN PyDict(insts)
     ELSE IF IsRaised(new_inst) THEN new_inst
     ELSE IF new_inst.t = "None" THEN PyDict(insts)
     ELSE PyDict(DictSet(insts, instance_type, new_inst))

GiInit ==
  /\ gi_pc = "list"
  /\ instance_types = EmptyDict
  /\ instances = EmptyDict
  /\ catalog = <<>>

\* describe_instance_types answers
ListTypes ==
  /\ gi_pc = "list"
  /\ \E listing \in InstanceTypeListings : instance_types' = listing
  /\ gi_pc' = "products"
  /\ UNCHANGED <<instances, catalog, ap_vars, fn_vars>>

\* describe_instance_types raises ClientError, which get_instances re-raises
ListTypesFails ==
  /\ gi_pc = "list"
  /\ gi_pc' = "raised"
  /\ UNCHANGED <<instance_types, instances, catalog, ap_vars, fn_vars>>

\* the product loop takes the next offer
Product ==
  /\ gi_pc = "products"
  /\ Len(catalog) < MaxCatalog
  /\ \E offer \in Offers :
       LET r == ProductStep(instances, instance_types, offer)
       IN /\ catalog' = Append(catalog, offer)
          /\ IF IsRaised(r)
             THEN gi_pc' = "raised" /\ instances' = instances
             ELSE gi_pc' = gi_pc /\ instances' = r.d
  /\ UNCHANGED <<instance_types, ap_vars, fn_vars>>

\* the price list is exhausted: get_instances returns the entities
ProductsDone ==
  /\ gi_pc = "products"
  /\ gi_pc' = "returned"
  /\ UNCHANGED <<instance_types, instances, catalog, ap_vars, fn_vars>>

-----------------------------------------------------------------------------
(* add_pricing *)

MaxInputs == 3

UsEast1 == <<"us-east-1">>
EuCentral1 == <<"eu-central-1">>

LocVirginia == <<"US East (N. Virginia)">>
LocFrankfurt == <<"EU", " (Frankfurt)">>
LocUnknown == <<"Asia Pacific (Atlantis)">>

\* get_region_descriptions(): description -> region of endpoints.json
get_region_descriptions ==
  (LocVirginia :> UsEast1) @@ (<<"Europe", " (Frankfurt)">> :> EuCentral1)

\* the entities handed to add_pricing, in the order of imap.keys()
ImapOrder == <<M5Large, T3Micro>>
ImapKeys == {ImapOrder[i] : i \in 1..Len(ImapOrder)}
X1Large == <<"x1", ".", "large">>

\* scrape.Instance().pricing: the pricing dict of a new entity
NewPricing == EmptyDict

Usd096 == PyStr(<<"0", ".", "0", "9", "6", "0", "0", "0", "0", "0", "0", "0">>)
Usd006 == PyStr(<<"0", ".", "0", "6">>)
Usd876 == PyStr(<<"8", "7", "6", ".", "0">>)
UsdZero == PyStr(<<"0", ".", "0", "0", "0", "0", "0", "0", "0", "0", "0", "0">>)

Dims(ds) == [t |-> "dict", dims |-> ds]
Dim(unit, usd) == [unit |-> unit, USD |-> usd]
Terms(od, rs) == [t |-> "dict", OnDemand |-> od, Reserved |-> rs]
TermAttributes(lease, option, class) ==
  [LeaseContractLength |-> lease, PurchaseOption |-> option, OfferingClass |-> class]

OdTerm096 == [priceDimensions |-> Dims(<<Dim("Hrs", Usd096)>>)]
RsTerm1yrNoUpfront ==
  [termAttributes |-> TermAttributes(PyStr(Lease1), PyStr(<<"No Upfront">>), None),
   priceDimensions |-> Dims(<<Dim("Hrs", Usd006)>>)]
RsTerm3yrAllUpfront ==
  [termAttributes |->
     TermAttributes(PyStr(Lease3), PyStr(<<"All Upfront">>), PyStr(<<"standard">>)),
   priceDimensions |-> Dims(<<Dim("Quantity", Usd876), Dim("Hrs", UsdZero)>>)]
RsTerm5yr ==
  [termAttributes |->
     TermAttributes(PyStr(<<"5", "y", "r">>), PyStr(<<"No Upfront">>), None),
   priceDimensions |-> Dims(<<Dim("Hrs", Usd006)>>)]

\* the terms sections of the pricing records
TermsSamples ==
  { Terms(<<OdTerm096>>, <<>>),
    Terms(<<OdTerm096>>, <<RsTerm1yrNoUpfront, RsTerm3yrAllUpfront>>),
    Terms(<<OdTerm096>>, <<RsTerm5yr>>) }

\* the pricing records of the price list
PricingRecords ==
  [instanceType : ImapKeys \cup {X1Large},
   location : {LocVirginia, LocFrankfurt, LocUnknown},
   operatingSystem : {PyStr(<<"Linux">>), PyStr(<<"Solaris">>)},
   preInstalledSw : {PyStr(<<"NA">>)},
   terms : TermsSamples]

\* the two setdefault calls, creating a Windows bundle beside the record's
EnsureBundleEager(pr, region, platform) ==
  LET withRegion == SetDefault(pr, region, EmptyDict)
  IN DictSet(withRegion, region,
       SetDefault(SetDefault(withRegion[region], platform, EmptyDict),
                  <<"mswin">>, EmptyDict))

\* inst.pricing.setdefault(region, {}); inst.pricing[region].setdefault(platform, {})
EnsureBundle(pr, region, platform) ==
  LET withRegion == SetDefault(pr, region, EmptyDict)
  IN DictSet(withRegion, region, SetDefault(withRegion[region], platform, EmptyDict))

\* inst.pricing[region][platform][field] = value
SetField(pr, region, platform, field, value) ==
  DictSet(pr, region,
    DictSet(pr[region], platform, DictSet(pr[region][platform], field, value)))

\* the try block with the reserved field stored whatever get_reserved_pricing
\* returns
MergeTermsAlways(pr, region, platform, terms) ==
  LET p1 == EnsureBundle(pr, region, platform)
      od == get_ondemand_pricing(terms)
      p2 == SetField(p1, region, platform, "ondemand", od)
      reserved == get_reserved_pricing(terms)
  IN IF IsRaised(od) THEN [pricing |-> p1, error |-> TRUE]
     ELSE IF IsRaised(reserved) THEN [pricing |-> p2, error |-> TRUE]
     ELSE [pricing |-> SetField(p2, region, platform, "reserved", reserved.d),
           error |-> FALSE]

\* the try block of add_pricing on one record: the entity's pricing dict
\* after it, and whether the except clause ran
MergeTerms(pr, region, platform, terms) ==
  LET p1 == EnsureBundle(pr, region, platform)
      od == get_ondemand_pricing(terms)
      p2 == SetField(p1, region, platform, "ondemand", od)
      reserved == get_reserved_pricing(terms)
  IN IF IsRaised(od) THEN [pricing |-> p1, error |-> TRUE]
     ELSE IF IsRaised(reserved) THEN [pricing |-> p2, error |-> TRUE]
     ELSE IF reserved.d # EmptyDict
     THEN [pricing |-> SetField(p2, region, platform, "reserved", reserved.d),
           error |-> FALSE]
     ELSE [pricing |-> p2, error |-> FALSE]

Outcome(im, line, r) == [imap |-> im, printed |-> line, raised |-> r]

\* the loop body with the unknown-location test dropped: the record is merged
\* under the first known region
PricingStepNoLocationTest(im, record) ==
  LET platform == translate_platform_name(record.operatingSystem, record.preInstalledSw)
      m == MergeTerms(im[record.instanceType], UsEast1, platform.s, record.terms)
  IN IF IsRaised(platform) THEN Outcome(im, "", TRUE)
     ELSE IF record.instanceType \notin DOMAIN im THEN Outcome(im, "WARNING", FALSE)
     ELSE Outcome([im EXCEPT ![record.instanceType] = m.pricing],
                  IF m.error THEN "ERROR" ELSE "", FALSE)

\* the body of the loop of add_pricing on one record: imap after it, the
\* line printed, and whether an exception left the loop
PricingStep(im, record) ==
  LET location == canonicalize_location(record.location)
      descriptions == get_region_descriptions
      platform == translate_platform_name(record.operatingSystem, record.preInstalledSw)
      m == MergeTerms(im[record.instanceType], descriptions[location], platform.s,
                      record.terms)
  IN IF location \notin DOMAIN descriptions THEN Outcome(im, "WARNING", FALSE)
     ELSE IF IsRaised(platform) THEN Outcome(im, "", TRUE)
     ELSE IF record.instanceType \notin DOMAIN im THEN Outcome(im, "WARNING", FALSE)
     ELSE Outcome([im EXCEPT ![record.instanceType] = m.pricing],
                  IF m.error THEN "ERROR" ELSE "", FALSE)

\* the keys of each pricing dict, oldest first, after a step
RECURSIVE AppendNew(_, _)
AppendNew(order, keys) ==
  IF keys = {} THEN order
  ELSE LET k == CHOOSE x \in keys : TRUE
       IN AppendNew(IF \E i \in 1..Len(order) : order[i] = k THEN order
                    ELSE Append(order, k), keys \ {k})

KeyOrderAfter(order, im) == [i \in DOMAIN im |-> AppendNew(order[i], DOMAIN im[i])]

-----------------------------------------------------------------------------
(* add_spot_pricing *)

ZoneLetters == {"a"}
SpotDescriptions == {"Linux/UNIX", "Windows", "Linux/UNIX (Amazon VPC)"}
SpotPrices ==
  {<<"0", ".", "0", "5">>, <<"0", ".", "0", "2">>, <<"0", ".", "0", "8">>}

\* list.sort(key=float): a stable sort, ascending
RECURSIVE SortByFloat(_)
SortByFloat(l) ==
  IF l = <<>> THEN <<>>
  ELSE LET front == SortByFloat(Front(l))
           x == Last(l)
           n == Cardinality({i \in 1..Len(front) :
                               ParseMicro(front[i].s) <= ParseMicro(x.s)})
       IN SubSeq(front, 1, n) \o <<x>> \o SubSeq(front, n + 1, Len(front))

\* append without the sort that follows it
SpotInsertUnsorted(bundle, price) ==
  LET b == SetDefault(SetDefault(SetDefault(bundle, "spot", <<>>),
                                 "spot_min", PyStr(<<"N/A">>)),
                      "spot_max", PyStr(<<"N/A">>))
      spot == Append(b["spot"], price)
  IN DictSet(DictSet(DictSet(b, "spot", spot), "spot_min", spot[1]),
             "spot_max", Last(spot))

\* lines 235-241: the bundle after one spot price is put in
SpotInsert(bundle, price) ==
  LET b == SetDefault(SetDefault(SetDefault(bundle, "spot", <<>>),
                                 "spot_min", PyStr(<<"N/A">>)),
                      "spot_max", PyStr(<<"N/A">>))
      spot == SortByFloat(Append(b["spot"], price))
  IN DictSet(DictSet(DictSet(b, "spot", spot), "spot_min", spot[1]),
             "spot_max", Last(spot))

\* the body of the price loop of add_spot_pricing on one spot price: imap
\* after it, or the raise
SpotStep(im, price) ==
  LET pr == im[price.InstanceType]
      platform == translate_platform_name(PyStr(<<price.ProductDescription>>),
                                          PyStr(<<"NA">>))
      region == Front(price.AvailabilityZone)
      byPlatform == SetDefault(pr[region], platform.s, EmptyDict)
  IN IF IsRaised(platform) THEN platform
     ELSE IF region \notin DOMAIN pr THEN Raised("KeyError")
     ELSE PyDict([im EXCEPT ![price.InstanceType] =
            DictSet(pr, region,
              DictSet(byPlatform, platform.s,
                SpotInsert(byPlatform[platform.s], PyStr(price.SpotPrice))))])

\* list(dict.fromkeys(regions))
RECURSIVE Dedupe(_)
Dedupe(l) ==
  IF l = <<>> THEN <<>>
  ELSE LET front == Dedupe(Front(l))
       IN IF \E i \in 1..Len(front) : front[i] = Last(l) THEN front
          ELSE Append(front, Last(l))

RECURSIVE ConcatKeys(_, _)
ConcatKeys(types, order) ==
  IF types = <<>> THEN <<>> ELSE order[Head(types)] \o ConcatKeys(Tail(types), order)

\* the region list add_spot_pricing builds from the pricing of all entities
SpotRegions(order) == Dedupe(ConcatKeys(ImapOrder, order))

-----------------------------------------------------------------------------
(* add_pricing followed by add_spot_pricing, as a state machine *)

GiIdle ==
  /\ gi_pc = "idle"
  /\ instance_types = EmptyDict
  /\ instances = EmptyDict
  /\ catalog = <<>>

FnIdle ==
  /\ fn_pc = "idle"
  /\ fn_terms = None
  /\ fn_result = None

ApIdle ==
  /\ pc = "idle"
  /\ imap = EmptyDict
  /\ key_order = EmptyDict
  /\ printed = ""
  /\ ninputs = 0
  /\ last = [ev |-> "none"]
  /\ observed = {}
  /\ reserved_seen = {}
  /\ regions = <<>>
  /\ ri = 0
  /\ spot_seen = EmptyDict

ApInit ==
  /\ pc = "pricing"
  /\ imap = [k \in ImapKeys |-> NewPricing]
  /\ key_order = [k \in ImapKeys |-> <<>>]
  /\ printed = ""
  /\ ninputs = 0
  /\ last = [ev |-> "none"]
  /\ observed = {}
  /\ reserved_seen = {}
  /\ regions = <<>>
  /\ ri = 0
  /\ spot_seen = EmptyDict

\* history: the bundle a pricing record is about, if it resolves to one
RecordKey(record) ==
  LET location == canonicalize_location(record.location)
      platform == translate_platform_name(record.operatingSystem, record.preInstalledSw)
  IN IF /\ location \in DOMAIN get_region_descriptions
        /\ ~IsRaised(platform)
        /\ record.instanceType \in ImapKeys
     THEN {<<record.instanceType, get_region_descriptions[location], platform.s>>}
     ELSE {}

\* the loop of add_pricing takes the next pricing record
PricingRecord ==
  /\ pc = "pricing"
  /\ ninputs < MaxInputs
  /\ \E record \in PricingRecords :
       LET o == PricingStep(imap, record)
       IN /\ imap' = o.imap
          /\ key_order' = KeyOrderAfter(key_order, o.imap)
          /\ printed' = o.printed
          /\ pc' = IF o.raised THEN "raised" ELSE "pricing"
          /\ last' = [ev |-> "record", location |-> record.location]
          /\ observed' = observed \cup RecordKey(record)
          /\ reserved_seen' =
               IF record.terms.Reserved # <<>> THEN reserved_seen \cup RecordKey(record)
               ELSE reserved_seen
  /\ ninputs' = ninputs + 1
  /\ UNCHANGED <<regions, ri, spot_seen, gi_vars, fn_vars>>

\* the price list is exhausted: add_spot_pricing is called and builds its
\* region list
PricingDone ==
  /\ pc = "pricing"
  /\ regions' = SpotRegions(key_order)
  /\ ri' = 1
  /\ pc' = IF SpotRegions(key_order) = <<>> THEN "returned" ELSE "spot"
  /\ last' = [ev |-> "pricing_done"]
  /\ printed' = ""
  /\ UNCHANGED <<imap, key_order, ninputs, observed,
                 reserved_seen, spot_seen, gi_vars, fn_vars>>

\* the region loop moves on to the next region, or add_spot_pricing returns
NextRegion ==
  /\ ri' = ri + 1
  /\ pc' = IF ri = Len(regions) THEN "returned" ELSE "spot"

\* the spot price history of the region being queried yields its next price
SpotPrice ==
  /\ pc = "spot"
  /\ ninputs < MaxInputs
  /\ \E it \in ImapKeys, z \in ZoneLetters, d \in SpotDescriptions, sp \in SpotPrices :
       LET price == [InstanceType |-> it, AvailabilityZone |-> regions[ri] \o <<z>>,
                     ProductDescription |-> d, SpotPrice |-> sp]
           r == SpotStep(imap, price)
           platform == translate_platform_name(PyStr(<<d>>), PyStr(<<"NA">>))
           key == <<it, Front(price.AvailabilityZone), platform.s>>
       IN /\ IF IsRaised(r) THEN pc' = "raised" /\ imap' = imap
             ELSE pc' = "spot" /\ imap' = r.d
          /\ last' = [ev |-> "spot", InstanceType |-> it,
                       AvailabilityZone |-> price.AvailabilityZone,
                       ProductDescription |-> d, SpotPrice |-> sp]
          /\ observed' = IF IsRaised(platform) THEN observed ELSE observed \cup {key}
          /\ spot_seen' =
               IF IsRaised(platform) THEN spot_seen
               ELSE DictSet(spot_seen, key,
                      (IF key \in DOMAIN spot_seen THEN spot_seen[key] ELSE EmptyBag)
                        (+) SetToBag({sp}))
  /\ ninputs' = ninputs + 1
  /\ printed' = ""
  /\ UNCHANGED <<key_order, reserved_seen, regions, ri, gi_vars, fn_vars>>

\* the same handler letting the ClientError through
SpotClientErrorPropagates ==
  /\ pc = "spot"
  /\ pc' = "raised"
  /\ last' = [ev |-> "client_error"]
  /\ printed' = ""
  /\ UNCHANGED <<imap, key_order, ninputs, observed,
                 reserved_seen, regions, ri, spot_seen, gi_vars, fn_vars>>

\* creating the client, paginating or fetching a page raises ClientError:
\* except botocore.exceptions.ClientError: pass
SpotClientError ==
  /\ pc = "spot"
  /\ NextRegion
  /\ last' = [ev |-> "client_error"]
  /\ printed' = ""
  /\ UNCHANGED <<imap, key_order, ninputs, observed,
                 reserved_seen, regions, spot_seen, gi_vars, fn_vars>>

\* the spot price history of the region is exhausted
SpotRegionDone ==
  /\ pc = "spot"
  /\ NextRegion
  /\ last' = [ev |-> "region_done"]
  /\ printed' = ""
  /\ UNCHANGED <<imap, key_order, ninputs, observed,
                 reserved_seen, regions, spot_seen, gi_vars, fn_vars>>

Init == ApInit /\ GiIdle /\ FnIdle

Next ==
  \/ PricingRecord
  \/ PricingDone
  \/ SpotPrice
  \/ SpotClientError
  \/ SpotRegionDone

Spec == Init /\ [][Next]_vars

-----------------------------------------------------------------------------
(* get_instances as a state machine *)

InitInst == GiInit /\ ApIdle /\ FnIdle

NextInst ==
  \/ ListTypes
  \/ ListTypesFails
  \/ Product
  \/ ProductsDone

SpecInst == InitInst /\ [][NextInst]_vars

-----------------------------------------------------------------------------
(* get_ondemand_pricing and get_reserved_pricing on bounded inputs *)

MaxDims == 2
MaxOndemandTerms == 2
MaxReservedTerms == 1

UsdValues == {None, Usd096, Usd006, UsdZero}

OndemandDimSeqs == SeqsUpTo([unit : {"Hrs"}, USD : UsdValues], MaxDims)
OndemandTermInputs ==
  [priceDimensions : {Dims(ds) : ds \in OndemandDimSeqs} \cup {None}]
OndemandInputs ==
  {Terms(od, <<>>) : od \in SeqsUpTo(OndemandTermInputs, MaxOndemandTerms)}

ReservedDimSeqs ==
  SeqsUpTo([unit : {"Hrs", "Quantity"}, USD : {None, Usd006, Usd876}], MaxDims)
TermAttributeInputs ==
  { TermAttributes(PyStr(Lease1), PyStr(<<"No Upfront">>), None),
    TermAttributes(PyStr(Lease3), PyStr(<<"All Upfront">>), PyStr(<<"standard">>)) }
\* a term of the retired purchase option, which has no canonical key
RsTermHeavyUtilization ==
  [termAttributes |->
     TermAttributes(PyStr(Lease1), PyStr(<<"Heavy Utilization">>), None),
   priceDimensions |-> Dims(<<Dim("Hrs", Usd006)>>)]
ReservedTermInputs ==
  [termAttributes : TermAttributeInputs,
   priceDimensions : {Dims(ds) : ds \in ReservedDimSeqs} \cup {None}]
    \cup {RsTermHeavyUtilization}
ReservedInputs ==
  {Terms(<<>>, rs) : rs \in SeqsUpTo(ReservedTermInputs, MaxReservedTerms)}

CallOndemand ==
  /\ fn_pc = "call"
  /\ fn_result' = get_ondemand_pricing(fn_terms)
  /\ fn_pc' = "returned"
  /\ UNCHANGED <<fn_terms, gi_vars, ap_vars>>

CallReserved ==
  /\ fn_pc = "call"
  /\ fn_result' = get_reserved_pricing(fn_terms)
  /\ fn_pc' = "returned"
  /\ UNCHANGED <<fn_terms, gi_vars, ap_vars>>

InitOndemand ==
  /\ fn_pc = "call" /\ fn_terms \in OndemandInputs /\ fn_result = None
  /\ GiIdle /\ ApIdle

InitReserved ==
  /\ fn_pc = "call" /\ fn_terms \in ReservedInputs /\ fn_result = None
  /\ GiIdle /\ ApIdle

NextOndemand == CallOndemand
NextReserved == CallReserved

SpecOndemand == InitOndemand /\ [][NextOndemand]_vars
SpecReserved == InitReserved /\ [][NextReserved]_vars

-----------------------------------------------------------------------------
(* Properties of add_pricing and add_spot_pricing, under Spec *)

\* every bundle of every entity, as <<instance type, region, platform>>
BundleKeys ==
  UNION {UNION {{<<i, r, p>> : p \in DOMAIN imap[i][r]} : r \in DOMAIN imap[i]}
           : i \in DOMAIN imap}
Bundle(k) == imap[k[1]][k[2]][k[3]]

\* C1: no pricing record makes add_pricing raise: whatever goes wrong with
\* one record is caught and the loop goes on to the next record.
C1_NoRecordAbortsBatch == ~(pc = "raised" /\ last.ev = "record")

UnknownLocation(l) ==
  l.ev = "record" /\ canonicalize_location(l.location) \notin DOMAIN get_region_descriptions

\* C2: a step of add_pricing on a record whose canonicalized location is no
\* key of the region catalog changes no entity's pricing, prints exactly one
\* line, a warning, and leaves the loop running for the records after it.
C2_UnknownLocationSkipped ==
  [][(pc = "pricing" /\ UnknownLocation(last'))
       => /\ imap' = imap
          /\ key_order' = key_order
          /\ printed' = "WARNING"
          /\ pc' = "pricing"]_vars

C2_Witness ==
  /\ UnknownLocation(last)
  /\ pc = "pricing"
  /\ printed = "WARNING"
  /\ BundleKeys # {}
  /\ ninputs < MaxInputs

RECURSIVE BagOfSeq(_)
BagOfSeq(l) ==
  IF l = <<>> THEN EmptyBag ELSE BagOfSeq(Tail(l)) (+) SetToBag({Head(l).s})

\* C3: in every state, every bundle that has a spot field holds in it exactly
\* the spot prices merged so far for that bundle, in ascending numeric order,
\* with spot_min its first element and spot_max its last.
C3_SpotSortedWithMinMax ==
  \A k \in BundleKeys :
    "spot" \in DOMAIN Bundle(k) =>
      LET spot == Bundle(k)["spot"]
      IN /\ k \in DOMAIN spot_seen
         /\ BagOfSeq(spot) = spot_seen[k]
         /\ \A n \in 1..(Len(spot) - 1) :
              ParseMicro(spot[n].s) <= ParseMicro(spot[n + 1].s)
         /\ Bundle(k)["spot_min"] = spot[1]
         /\ Bundle(k)["spot_max"] = spot[Len(spot)]

\* the price merged last is the lower of the two the bundle holds
C3_Witness ==
  /\ last.ev = "spot"
  /\ last.SpotPrice = <<"0", ".", "0", "2">>
  /\ \E k \in BundleKeys :
       /\ k[1] = last.InstanceType
       /\ "spot" \in DOMAIN Bundle(k)
       /\ Bundle(k)["spot"] = <<PyStr(<<"0", ".", "0", "2">>), PyStr(<<"0", ".", "0", "5">>)>>
       /\ Bundle(k)["spot_min"] = PyStr(<<"0", ".", "0", "2">>)
       /\ Bundle(k)["spot_max"] = PyStr(<<"0", ".", "0", "5">>)

\* C4: a spot price whose product description translates to a platform is
\* merged without raising, whatever regions the instance has pricing for.
C4_SpotMergeNeverRaises ==
  ~(/\ pc = "raised"
    /\ last.ev = "spot"
    /\ ~IsRaised(translate_platform_name(PyStr(<<last.ProductDescription>>),
                                         PyStr(<<"NA">>))))

\* C5: a step in which the query of a region raises ClientError prints
\* nothing, changes no pricing, does not raise out of add_spot_pricing and
\* moves to the next region of the list, which is queried when there is one.
C5_ClientErrorSkipsRegion ==
  [][(pc = "spot" /\ last'.ev = "client_error")
       => /\ pc' # "raised"
          /\ printed' = ""
          /\ imap' = imap
          /\ regions' = regions
          /\ ri' = ri + 1
          /\ (ri < Len(regions) => pc' = "spot")
          /\ (ri = Len(regions) => pc' = "returned")]_vars

C5_Witness ==
  /\ last.ev = "client_error"
  /\ pc = "spot"
  /\ ri = 2
  /\ Len(regions) = 2

\* C6: in every state, every region key and every region/platform key of an
\* entity's pricing is that of a pricing record or spot price processed for
\* that entity; a new entity has no keys.
C6_KeysWereObserved ==
  /\ \A i \in DOMAIN imap : \A r \in DOMAIN imap[i] :
       \E o \in observed : o[1] = i /\ o[2] = r
  /\ \A k \in BundleKeys : k \in observed

C6_Witness ==
  /\ \E k \in BundleKeys : DOMAIN Bundle(k) = {"spot", "spot_min", "spot_max"}
  /\ \E k \in BundleKeys : "ondemand" \in DOMAIN Bundle(k)
  /\ \E i \in DOMAIN imap : imap[i] = NewPricing

\* C7: in every state, a bundle has a reserved field only if a processed
\* record for that instance, region and platform carried a reserved term, and
\* the field is never an empty mapping.
C7_ReservedOnlyIfOffered ==
  \A k \in BundleKeys :
    "reserved" \in DOMAIN Bundle(k) =>
      k \in reserved_seen /\ Bundle(k)["reserved"] # EmptyDict

C7_Witness ==
  /\ \E k \in BundleKeys : "reserved" \in DOMAIN Bundle(k)
  /\ \E k \in BundleKeys :
       "ondemand" \in DOMAIN Bundle(k) /\ "reserved" \notin DOMAIN Bundle(k)
                                       /\ k \notin reserved_seen
  /\ \E k \in BundleKeys : k \in reserved_seen /\ "reserved" \notin DOMAIN Bundle(k)

-----------------------------------------------------------------------------
(* Properties of get_instances, under SpecInst *)

\* the first offer taken that is an instance and is filed under type k
FirstSeen(k) ==
  CHOOSE n \in 1..Len(catalog) :
    /\ IsInstanceOffer(catalog[n]) /\ OfferType(catalog[n]) = k
    /\ \A m \in 1..(n - 1) :
         ~(IsInstanceOffer(catalog[m]) /\ OfferType(catalog[m]) = k)

\* C8: the entity set holds one entity per type code, built from the first
\* instance offer taken with that type code (after the .metal rewrite); no
\* later offer replaces, changes or removes an entity.
C8_FirstSeenWins ==
  /\ [](\A k \in DOMAIN instances :
          /\ \E n \in 1..Len(catalog) :
               IsInstanceOffer(catalog[n]) /\ OfferType(catalog[n]) = k
          /\ instances[k].instance_type = PyStr(k)
          /\ instances[k] = parse_instance(k, catalog[FirstSeen(k)].attributes,
                                           DictGet(instance_types, k)))
  /\ [][\A k \in DOMAIN instances :
          k \in DOMAIN instances' /\ instances'[k] = instances[k]]_vars

C8_Witness ==
  /\ Len(catalog) = 2
  /\ IsInstanceOffer(catalog[1]) /\ IsInstanceOffer(catalog[2])
  /\ catalog[1].instanceType = U6tb1 /\ catalog[2].instanceType = U6tb1
  /\ catalog[1].attributes # catalog[2].attributes
  /\ catalog[2].attributes # AttrsBad
  /\ DOMAIN instances = {U6tb1 \o <<".", "metal">>}
  /\ gi_pc = "products"

-----------------------------------------------------------------------------
(* Properties of get_ondemand_pricing, under SpecOndemand *)

RECURSIVE Flatten(_)
Flatten(ts) ==
  IF ts = <<>> THEN <<>> ELSE Head(ts).priceDimensions.dims \o Flatten(Tail(ts))

\* the formatted last USD price among all price dimensions of all on-demand
\* terms, or the formatted zero when there is none
OndemandReference(terms) ==
  LET dims == Flatten(terms.OnDemand)
      priced == {n \in 1..Len(dims) : dims[n].USD.t # "None"}
  IN IF priced = {} THEN format_price(PyFloat(0))
     ELSE format_price(dims[CHOOSE n \in priced : \A m \in priced : m <= n].USD)

\* C9: whenever get_ondemand_pricing returns, it returns the formatted last
\* USD price encountered, or the zero in that same formatted form when no
\* USD price was encountered.
C9_OndemandIsFormattedLastPrice ==
  (fn_pc = "returned" /\ ~IsRaised(fn_result)) => fn_result = OndemandReference(fn_terms)

-----------------------------------------------------------------------------
(* Properties of get_reserved_pricing, under SpecReserved *)

LastWhere(dims, S) == dims[CHOOSE n \in S : \A m \in S : m <= n].USD

\* hourly + upfront / (years * 365 * 24) for one reserved term, in millionths
ReferenceRate(term) ==
  LET dims == term.priceDimensions.dims
      hrs == {n \in 1..Len(dims) : dims[n].USD.t # "None" /\ dims[n].unit = "Hrs"}
      other == {n \in 1..Len(dims) : dims[n].USD.t # "None" /\ dims[n].unit # "Hrs"}
      hourly == IF hrs = {} THEN 0 ELSE ParseMicro(LastWhere(dims, hrs).s)
      upfront == IF other = {} THEN 0 ELSE ParseMicro(LastWhere(dims, other).s)
      years == DigitVal(term.termAttributes.LeaseContractLength.s[1])
      hours == years * 365 * 24
  IN hourly + (2 * upfront + hours) \div (2 * hours)

\* C10: when get_reserved_pricing returns, every reserved term (of lease 1yr
\* or 3yr) that no later term shares its key with has, under its canonical
\* term key, the rate hourly + upfront / (years * 365 * 24), formatted.
C10_ReservedRateAmortized ==
  (fn_pc = "returned" /\ fn_result.t = "dict") =>
    \A n \in 1..Len(fn_terms.Reserved) :
      LET term == fn_terms.Reserved[n]
          key == translate_reserved_terms(term.termAttributes).s
      IN (\A m \in (n + 1)..Len(fn_terms.Reserved) :
            translate_reserved_terms(fn_terms.Reserved[m].termAttributes).s # key)
         => /\ key \in DOMAIN fn_result.d
            /\ fn_result.d[key] = PyStr(FormatMicro(ReferenceRate(term)))

C10_Witness ==
  /\ fn_pc = "returned"
  /\ fn_result.t = "dict"
  /\ Len(fn_terms.Reserved) = 1
  /\ fn_terms.Reserved[1].priceDimensions.t = "dict"
  /\ fn_terms.Reserved[1].priceDimensions.dims = <<Dim("Quantity", Usd876), Dim("Hrs", None)>>
  /\ <<"yrTerm1", "None", ".", "noUpfront">> \in DOMAIN fn_result.d
  /\ fn_result.d[<<"yrTerm1", "None", ".", "noUpfront">>] = PyStr(<<"0", ".", "1">>)

====
